---- MODULE Spec2Model ----
(***************************************************************************)
(* State-machine model of the LiveSession component (src/LiveSession.tsx): *)
(* the session life cycle (startSession, cleanup, the transport callbacks  *)
(* onopen / onmessage / onclose / onerror), the tool-call loop and the     *)
(* playback scheduling of audio-reply chunks.                              *)
(*                                                                         *)
(* JavaScript runs every callback to completion; a handler gives up        *)
(* control only at an `await`.  Each action below is one such synchronous  *)
(* segment, so an async function is a sequence of actions linked by a      *)
(* program counter (startPc for startSession, msgs[m].pc for onmessage).   *)
(* A resource (audio context, stream, transport, ...) is identified by the *)
(* number of the startSession invocation that created it; 0 is null.       *)
(***************************************************************************)
EXTENDS Integers, Sequences, FiniteSets

\* ------------------------------------------------------------- bounds
MaxSessions == 2    \* startSession invocations explored
MaxMsgs == 2        \* inbound messages explored (over all sessions)
MaxCalls == 2       \* function calls explored (over all messages)
MaxClock == 1       \* ticks of an output context's clock
MaxDur == 1         \* longest decoded buffer, in ticks
MaxRestarts == 3    \* startSession invocations explored without messages
MaxWindows == 2     \* firings of the capture callback explored

Sessions == 1..MaxRestarts
Null == 0

\* ------------------------------------------------------------- state
VARIABLES
  status,            \* useState status               (line 47)
  isConnected,       \* useState isConnected          (line 45)
  isSpeaking,        \* useState isSpeaking           (line 46)
  liveImage,         \* useState liveImage # null     (line 50)
  isProcessingTool,  \* useState isProcessingTool     (line 51)
  toolStatus,        \* useState toolStatus           (line 52)
  sessionRef,        \* sessionRef.current            (line 55)
  audioContextRef,   \* audioContextRef.current       (line 56)
  inputContextRef,   \* inputContextRef.current       (line 57)
  streamRef,         \* streamRef.current             (line 58)
  processorRef,      \* processorRef.current          (line 59)
  sourceRef,         \* sourceRef.current             (line 60)
  nextStartTime,     \* nextStartTimeRef.current      (line 63)
  scheduledSources,  \* scheduledSources.current      (line 64)
  started,           \* number of startSession invocations so far
  startPc,           \* position of each startSession invocation
  tr,                \* state of the transport each invocation opened
  closeReq,          \* a then(s => s.close()) waits for the connect promise
  released,          \* how often each resource was released
  clock,             \* currentTime of each output AudioContext
  msgs,              \* inbound messages in arrival order, with handler position
  schedLog,          \* source.start(...) calls, in the order they were made
  toolLog,           \* session.sendToolResponse(...) calls, in order
  stopLog,           \* how often stop() was called on each buffer source
  endedDone,         \* buffer sources whose 'ended' event was delivered
  procCtx,           \* input context each onopen built its processor on
  fired,             \* firings of each processor's onaudioprocess so far
  audioLog           \* session.sendRealtimeInput(...) calls, in order

vars == <<status, isConnected, isSpeaking, liveImage, isProcessingTool, toolStatus,
          sessionRef, audioContextRef, inputContextRef, streamRef, processorRef,
          sourceRef, nextStartTime, scheduledSources, started, startPc, tr,
          closeReq, released, clock, msgs, schedLog, toolLog, stopLog, endedDone,
          procCtx, fired, audioLog>>

capVars == <<procCtx, fired, audioLog>>
uiVars == <<status, isConnected, isSpeaking, liveImage, isProcessingTool, toolStatus>>
refVars == <<sessionRef, audioContextRef, inputContextRef, streamRef, processorRef,
             sourceRef>>

\* ------------------------------------------------------------- helpers
Kinds == {"session", "processor", "source", "stream", "inputContext", "audioContext"}

Max(a, b) == IF a >= b THEN a ELSE b

\* The tools the session declares (lines 13-42, 255) and a name it does not.
KnownTools == {"generate_image", "generate_code"}
ToolNames == KnownTools \cup {"generate_video"}

\* Lists of function calls one message may carry.
ToolLists == UNION {[1..k -> ToolNames] : k \in 0..MaxCalls}

\* The description (or prompt) a function call may carry in its args.
Descriptions == {"todo app"}

\* fc.args of one call: <<>> when the call has no args, <<d>> when its args
\* hold the description d.
ArgValues == {<<>>} \cup {<<d>> : d \in Descriptions}

\* The args of the calls t; only the args of a call with a handler are read
\* (lines 292, 295), so the other calls are explored without args.
ArgLists(t) ==
  {a \in [1..Len(t) -> ArgValues] : \A i \in 1..Len(t) : t[i] \notin KnownTools => a[i] = <<>>}

\* msg.toolCall: absent (or with an empty functionCalls array), present
\* without functionCalls, or present with calls.
CallShapes ==
  {[toolCall |-> "absent", tools |-> <<>>, args |-> <<>>],
   [toolCall |-> "noCalls", tools |-> <<>>, args |-> <<>>]}
  \cup UNION {{[toolCall |-> "calls", tools |-> t, args |-> a] : a \in ArgLists(t)} :
               t \in ToolLists \ {<<>>}}

\* What a message may carry: a toolCall, an audio chunk (its decoded
\* duration, 0 for none) and the turnComplete flag.
MsgShapes ==
  {[toolCall |-> c.toolCall, tools |-> c.tools, args |-> c.args, audio |-> d, tc |-> b] :
     c \in CallShapes, d \in 0..MaxDur, b \in BOOLEAN}

\* One release of the resource a ref holds (no-op for a null ref).
Release(rel, kind, ref) ==
  IF ref = Null THEN rel ELSE [rel EXCEPT ![kind][ref] = @ + 1]

\* ------------------------------------------------------------- initial state
\* The component right after its first render (lines 45-67).
Init ==
  /\ status = "disconnected"
  /\ isConnected = FALSE
  /\ isSpeaking = FALSE
  /\ liveImage = FALSE
  /\ isProcessingTool = FALSE
  /\ toolStatus = ""
  /\ sessionRef = Null
  /\ audioContextRef = Null
  /\ inputContextRef = Null
  /\ streamRef = Null
  /\ processorRef = Null
  /\ sourceRef = Null
  /\ nextStartTime = 0
  /\ scheduledSources = {}
  /\ started = 0
  /\ startPc = [n \in Sessions |-> "idle"]
  /\ tr = [n \in Sessions |-> "none"]
  /\ closeReq = [n \in Sessions |-> FALSE]
  /\ released = [k \in Kinds |-> [n \in Sessions |-> 0]]
  /\ clock = [n \in Sessions |-> 0]
  /\ msgs = <<>>
  /\ schedLog = <<>>
  /\ toolLog = <<>>
  /\ stopLog = <<>>
  /\ endedDone = {}
  /\ procCtx = [n \in Sessions |-> Null]
  /\ fired = [n \in Sessions |-> 0]
  /\ audioLog = <<>>

\* ------------------------------------------------------------- cleanup
\* Lines 70-73: sessionRef.current.then(s => s.close()).  On an open transport
\* the close takes effect at once (the promise is resolved); on a transport
\* still connecting it waits for the promise; otherwise it changes nothing.
TrAfterClose(t) ==
  IF sessionRef # Null /\ t[sessionRef] = "open"
  THEN [t EXCEPT ![sessionRef] = "closing"]
  ELSE t

CloseReqAfterClose(t) ==
  IF sessionRef # Null /\ t[sessionRef] = "connecting"
  THEN [closeReq EXCEPT ![sessionRef] = TRUE]
  ELSE closeReq

\* Lines 70-93: every held handle is released once and its ref set to null.
ReleasedAfterCleanup ==
  Release(Release(Release(Release(Release(Release(released,
    "session", sessionRef),
    "processor", processorRef),
    "source", sourceRef),
    "stream", streamRef),
    "inputContext", inputContextRef),
    "audioContext", audioContextRef)

\* Line 97: stop() on every scheduled buffer source.
StopLogAfterCleanup ==
  stopLog \o [i \in 1..Cardinality(scheduledSources) |->
                CHOOSE b \in scheduledSources :
                  Cardinality({c \in scheduledSources : c < b}) = i - 1]

\* Mutant of Cleanup: the stream ref is not set to null after its tracks
\* were stopped (line 84 missing).
CleanupKeepsStreamRef(st, t) ==
  /\ tr' = TrAfterClose(t)
  /\ closeReq' = CloseReqAfterClose(t)
  /\ released' = ReleasedAfterCleanup
  /\ sessionRef' = Null
  /\ processorRef' = Null
  /\ sourceRef' = Null
  /\ UNCHANGED streamRef
  /\ inputContextRef' = Null
  /\ audioContextRef' = Null
  /\ stopLog' = StopLogAfterCleanup
  /\ scheduledSources' = {}
  /\ isConnected' = FALSE
  /\ status' = st
  /\ isSpeaking' = FALSE
  /\ liveImage' = FALSE
  /\ isProcessingTool' = FALSE
  /\ UNCHANGED toolStatus

\* cleanup (lines 69-104), run on transport states t; st is the status the
\* caller leaves behind: 'disconnected' (line 100) unless the caller goes on
\* to setStatus('error') in the same synchronous segment (lines 357, 367).
Cleanup(st, t) ==
  /\ tr' = TrAfterClose(t)
  /\ closeReq' = CloseReqAfterClose(t)
  /\ released' = ReleasedAfterCleanup
  /\ sessionRef' = Null
  /\ processorRef' = Null
  /\ sourceRef' = Null
  /\ streamRef' = Null
  /\ inputContextRef' = Null
  /\ audioContextRef' = Null
  /\ stopLog' = StopLogAfterCleanup
  /\ scheduledSources' = {}
  /\ isConnected' = FALSE
  /\ status' = st
  /\ isSpeaking' = FALSE
  /\ liveImage' = FALSE
  /\ isProcessingTool' = FALSE
  /\ UNCHANGED toolStatus

\* ------------------------------------------------------------- startSession
\* Mutant of ClickStart: the Start button is not disabled while status is
\* 'connecting' (line 481 missing).
ClickStartNoDisable(maxS) ==
  /\ ~isConnected
  /\ started < maxS
  /\ LET n == started + 1 IN
       /\ started' = n
       /\ status' = "connecting"
       /\ audioContextRef' = n
       /\ inputContextRef' = n
       /\ nextStartTime' = clock[n]
       /\ startPc' = [startPc EXCEPT ![n] = "awaitMic"]
  /\ UNCHANGED capVars
  /\ UNCHANGED <<isConnected, isSpeaking, liveImage, isProcessingTool, toolStatus,
                 sessionRef, streamRef, processorRef, sourceRef, scheduledSources,
                 tr, closeReq, released, clock, msgs, schedLog, toolLog, stopLog,
                 endedDone>>

\* The Start button (lines 479-487) is rendered while !isConnected and is
\* disabled while status is 'connecting'.  startSession up to its first await
\* (lines 232-242).
ClickStart(maxS) ==
  /\ ~isConnected
  /\ status # "connecting"
  /\ started < maxS
  /\ LET n == started + 1 IN
       /\ started' = n
       /\ status' = "connecting"
       /\ audioContextRef' = n
       /\ inputContextRef' = n
       /\ nextStartTime' = clock[n]
       /\ startPc' = [startPc EXCEPT ![n] = "awaitMic"]
  /\ UNCHANGED capVars
  /\ UNCHANGED <<isConnected, isSpeaking, liveImage, isProcessingTool, toolStatus,
                 sessionRef, streamRef, processorRef, sourceRef, scheduledSources,
                 tr, closeReq, released, clock, msgs, schedLog, toolLog, stopLog,
                 endedDone>>

\* getUserMedia resolves: lines 243-362.  connect() returns its promise at
\* once and the promise is not awaited, so the function returns here.
MicGranted(n) ==
  /\ startPc[n] = "awaitMic"
  /\ streamRef' = n
  /\ tr' = [tr EXCEPT ![n] = "connecting"]
  /\ sessionRef' = n
  /\ startPc' = [startPc EXCEPT ![n] = "returned"]
  /\ UNCHANGED capVars
  /\ UNCHANGED <<uiVars, audioContextRef, inputContextRef, processorRef, sourceRef,
                 nextStartTime, scheduledSources, started, closeReq, released,
                 clock, msgs, schedLog, toolLog, stopLog, endedDone>>

\* Mutant of MicDenied: the catch block sets the status without cleanup().
MicDeniedNoCleanup(n) ==
  /\ startPc[n] = "awaitMic"
  /\ status' = "error"
  /\ startPc' = [startPc EXCEPT ![n] = "caught"]
  /\ UNCHANGED capVars
  /\ UNCHANGED <<isConnected, isSpeaking, liveImage, isProcessingTool, toolStatus,
                 refVars, nextStartTime, scheduledSources, started, tr, closeReq,
                 released, clock, msgs, schedLog, toolLog, stopLog, endedDone>>

\* getUserMedia rejects: the await throws into the catch (lines 364-368).
MicDenied(n) ==
  /\ startPc[n] = "awaitMic"
  /\ Cleanup("error", tr)
  /\ startPc' = [startPc EXCEPT ![n] = "caught"]
  /\ UNCHANGED capVars
  /\ UNCHANGED <<nextStartTime, started, clock, msgs, schedLog, toolLog, endedDone>>

\* ------------------------------------------------------------- transport callbacks
\* onopen (lines 258-284), followed by the resolution of the connect promise,
\* which runs a close that cleanup registered while the promise was pending.
OnOpen(n) ==
  /\ tr[n] = "connecting"
  /\ status' = "connected"
  /\ isConnected' = TRUE
  /\ IF inputContextRef = Null
     THEN UNCHANGED <<sourceRef, processorRef, procCtx>>
     ELSE /\ sourceRef' = n
          /\ processorRef' = n
          /\ procCtx' = [procCtx EXCEPT ![n] = inputContextRef]
  /\ tr' = [tr EXCEPT ![n] = IF closeReq[n] THEN "closing" ELSE "open"]
  /\ closeReq' = [closeReq EXCEPT ![n] = FALSE]
  /\ UNCHANGED <<fired, audioLog, isSpeaking, liveImage, isProcessingTool, toolStatus, sessionRef,
                 audioContextRef, inputContextRef, streamRef, nextStartTime,
                 scheduledSources, started, startPc, released, clock, msgs,
                 schedLog, toolLog, stopLog, endedDone>>

\* The connect promise rejects (line 247).  Nothing awaits it and it carries
\* no rejection handler, so no code of the component runs.
ConnectReject(n) ==
  /\ tr[n] = "connecting"
  /\ tr' = [tr EXCEPT ![n] = "rejected"]
  /\ UNCHANGED capVars
  /\ UNCHANGED <<uiVars, refVars, nextStartTime, scheduledSources, started, startPc,
                 closeReq, released, clock, msgs, schedLog, toolLog, stopLog,
                 endedDone>>

\* Mutant of OnError: the error callback sets the status without cleanup().
OnErrorNoCleanup(n) ==
  /\ tr[n] \in {"connecting", "open"}
  /\ tr' = [tr EXCEPT ![n] = "closing"]
  /\ status' = "error"
  /\ UNCHANGED capVars
  /\ UNCHANGED <<isConnected, isSpeaking, liveImage, isProcessingTool, toolStatus,
                 refVars, nextStartTime, scheduledSources, started, startPc, closeReq,
                 released, clock, msgs, schedLog, toolLog, stopLog, endedDone>>

\* onerror (lines 354-358); the failed connection then reports its close.
OnError(n) ==
  /\ tr[n] \in {"connecting", "open"}
  /\ Cleanup("error", [tr EXCEPT ![n] = "closing"])
  /\ UNCHANGED capVars
  /\ UNCHANGED <<nextStartTime, started, startPc, clock, msgs, schedLog, toolLog,
                 endedDone>>

\* onclose (lines 350-353): the peer closed the connection, or the close
\* requested by cleanup (or following an error) completed.
OnClose(n) ==
  /\ tr[n] \in {"open", "closing"}
  /\ Cleanup("disconnected", [tr EXCEPT ![n] = "closed"])
  /\ UNCHANGED capVars
  /\ UNCHANGED <<nextStartTime, started, startPc, clock, msgs, schedLog, toolLog,
                 endedDone>>

\* The processor onopen of invocation n built fires while it is connected
\* (cleanup did not disconnect it) and its input context is not closed.
Capturing(n) ==
  /\ procCtx[n] # Null
  /\ released["processor"][n] = 0
  /\ released["inputContext"][procCtx[n]] = 0

\* Mutant of OnAudioProcess: the callback builds the blob and sends nothing.
OnAudioProcessNoSend(n, maxW) ==
  /\ Capturing(n)
  /\ Len(audioLog) < maxW
  /\ fired' = [fired EXCEPT ![n] = @ + 1]
  /\ UNCHANGED <<audioLog, procCtx, uiVars, refVars, nextStartTime, scheduledSources,
                 started, startPc, tr, closeReq, released, clock, msgs, schedLog,
                 toolLog, stopLog, endedDone>>

\* processor.onaudioprocess (lines 273-280) for one window of 4096 samples.
\* The connect promise of the closure is resolved by then, so its then
\* callback runs before any other event: one sendRealtimeInput on the
\* session of the closure; trAt records the state of that transport.
OnAudioProcess(n, maxW) ==
  /\ Capturing(n)
  /\ Len(audioLog) < maxW
  /\ fired' = [fired EXCEPT ![n] = @ + 1]
  /\ audioLog' = Append(audioLog, [sess |-> n, win |-> fired[n] + 1, trAt |-> tr[n]])
  /\ UNCHANGED <<procCtx, uiVars, refVars, nextStartTime, scheduledSources,
                 started, startPc, tr, closeReq, released, clock, msgs, schedLog,
                 toolLog, stopLog, endedDone>>

\* The End Session button (lines 489-494), rendered while isConnected.
ClickStop ==
  /\ isConnected
  /\ Cleanup("disconnected", tr)
  /\ UNCHANGED capVars
  /\ UNCHANGED <<nextStartTime, started, startPc, clock, msgs, schedLog, toolLog,
                 endedDone>>

\* The clock of a running output context advances.
Tick(n) ==
  /\ n <= started
  /\ released["audioContext"][n] = 0
  /\ clock[n] < MaxClock
  /\ clock' = [clock EXCEPT ![n] = @ + 1]
  /\ UNCHANGED capVars
  /\ UNCHANGED <<uiVars, refVars, nextStartTime, scheduledSources, started, startPc,
                 tr, closeReq, released, msgs, schedLog, toolLog, stopLog, endedDone>>

\* ------------------------------------------------------------- tool handlers
\* How a handler may end (lines 130-138 and 193-225).
Outcomes(name) ==
  IF name = "generate_image" THEN {"ok", "empty", "threw"}
  ELSE {"ok", "empty", "badFormat", "threw"}

\* The text a handler called with description returns (lines 130-138,
\* 193-225).
ResultText(name, outcome, description) ==
  IF name = "generate_image"
  THEN CASE outcome = "ok" -> "Image generated and displayed successfully."
         [] outcome = "empty" -> "Failed to generate image."
         [] OTHER -> "Error occurred while generating image."
  ELSE CASE outcome = "ok" ->
              "Code generated successfully for \"" \o description
                \o "\". Files saved to Code Studio."
         [] outcome = "empty" -> "Failed to generate code."
         [] outcome = "badFormat" -> "Code generation failed format check."
         [] OTHER -> "Error occurred while generating code."

\* setToolStatus at the head of a handler (lines 108, 146).
StatusText(name) ==
  IF name = "generate_image" THEN "Generating image..." ELSE "Writing code..."

\* ------------------------------------------------------------- onmessage
\* First function call at index i or later whose name has a handler; the
\* loop (lines 288-309) reaches it without giving up control.
RECURSIVE NextKnown(_, _)
NextKnown(tools, i) ==
  IF i > Len(tools) THEN i
  ELSE IF tools[i] \in KnownTools THEN i
  ELSE NextKnown(tools, i + 1)

\* One session.sendToolResponse call (lines 300-308): the id and name of
\* function call i of message m, with the result.  It goes to the session of
\* the closure, whatever state that transport is in by now; trAt records
\* the state of that transport at the call.
Response(m, ms, i, result) ==
  [msg |-> m, idx |-> i, name |-> ms[m].tools[i], result |-> result,
   sess |-> ms[m].sess, trAt |-> tr[ms[m].sess]]

\* Lines 289, 300-308 for the calls i .. j-1, none of which has a handler.
UnknownResponses(m, ms, i, j) ==
  [k \in 1..(j - i) |-> Response(m, ms, i + k - 1, "Tool execution failed")]

\* Lines 346-348.
TurnPart(m, ms) ==
  /\ isSpeaking' = IF ms[m].tc THEN FALSE ELSE isSpeaking
  /\ msgs' = [ms EXCEPT ![m].pc = "done"]

\* Lines 312-328, up to the await of decodeAudioData; without audio data or
\* without an output context the handler runs on to lines 346-348.
AudioPart(m, ms) ==
  IF ms[m].audio # 0 /\ audioContextRef # Null
  THEN /\ isSpeaking' = TRUE
       /\ nextStartTime' = Max(nextStartTime, clock[audioContextRef])
       /\ msgs' = [ms EXCEPT ![m].pc = "decode", ![m].ctx = audioContextRef]
  ELSE /\ TurnPart(m, ms)
       /\ UNCHANGED nextStartTime

\* The handler of message m from function call i on, until it awaits,
\* throws or returns.  log and ipt are toolLog and isProcessingTool as the
\* part of the segment that already ran left them.  fc is the position of
\* the loop of lines 288-309.  Reading fc.args[...] of a call without args
\* (lines 292, 295) throws before the handler is called: nothing catches it,
\* so the rest of the loop and of the handler does not run.
RunHandler(m, ms, i, log, ipt) ==
  LET tools == ms[m].tools
      j == NextKnown(tools, i)
  IN /\ toolLog' = log \o UnknownResponses(m, ms, i, j)
     /\ IF j <= Len(tools)
        THEN IF ms[m].args[j] = <<>>
             THEN /\ isProcessingTool' = ipt
                  /\ msgs' = [ms EXCEPT ![m].pc = "threw", ![m].fc = j]
                  /\ UNCHANGED <<toolStatus, isSpeaking, nextStartTime>>
             ELSE /\ toolStatus' = StatusText(tools[j])
                  /\ isProcessingTool' = TRUE
                  /\ msgs' = [ms EXCEPT ![m].pc = "tool", ![m].fc = j]
                  /\ UNCHANGED <<isSpeaking, nextStartTime>>
        ELSE /\ isProcessingTool' = ipt
             /\ UNCHANGED toolStatus
             /\ AudioPart(m, [ms EXCEPT ![m].fc = j])

\* Function calls carried by the messages ms.
RECURSIVE CallCount(_)
CallCount(ms) ==
  IF ms = <<>> THEN 0 ELSE Len(Head(ms).tools) + CallCount(Tail(ms))

\* The transport delivers a message to onmessage (line 285).  Handlers of
\* earlier messages may still be suspended: the callback is not awaited.
\* A toolCall without functionCalls makes the for loop of line 288 throw
\* (not iterable), which ends the handler.  maxM and maxC bound the messages
\* and the function calls explored.
OnMessage(n, shape, maxM, maxC) ==
  /\ tr[n] = "open"
  /\ Len(msgs) < maxM
  /\ CallCount(msgs) + Len(shape.tools) <= maxC
  /\ LET m == Len(msgs) + 1
         ms == Append(msgs, [sess |-> n, tools |-> shape.tools, args |-> shape.args,
                             audio |-> shape.audio, tc |-> shape.tc,
                             pc |-> "new", fc |-> 0, ctx |-> Null])
     IN IF shape.toolCall = "noCalls"
        THEN /\ msgs' = [ms EXCEPT ![m].pc = "threw"]
             /\ UNCHANGED <<toolLog, toolStatus, isProcessingTool, isSpeaking,
                            nextStartTime>>
        ELSE RunHandler(m, ms, 1, toolLog, isProcessingTool)
  /\ UNCHANGED capVars
  /\ UNCHANGED <<status, isConnected, liveImage, refVars, scheduledSources, started,
                 startPc, tr, closeReq, released, clock, schedLog, stopLog,
                 endedDone>>

\* The awaited tool handler of message m returns (lines 293, 296): its
\* finally block and setLiveImage ran, the response is sent and the loop
\* goes on.
ToolDone(m, outcome) ==
  /\ m \in 1..Len(msgs)
  /\ msgs[m].pc = "tool"
  /\ LET i == msgs[m].fc
         name == msgs[m].tools[i]
     IN /\ outcome \in Outcomes(name)
        /\ liveImage' = IF name = "generate_image" /\ outcome = "ok"
                        THEN TRUE ELSE liveImage
        /\ RunHandler(m, msgs, i + 1,
                      Append(toolLog, Response(m, msgs, i,
                                               ResultText(name, outcome, msgs[m].args[i][1]))),
                      FALSE)
  /\ UNCHANGED capVars
  /\ UNCHANGED <<status, isConnected, refVars, scheduledSources, started, startPc,
                 tr, closeReq, released, clock, schedLog, stopLog, endedDone>>

\* decodeAudioData resolves: lines 330-348.
DecodeDone(m) ==
  /\ m \in 1..Len(msgs)
  /\ msgs[m].pc = "decode"
  /\ schedLog' = Append(schedLog, [msg |-> m, ctx |-> msgs[m].ctx,
                                   start |-> nextStartTime, dur |-> msgs[m].audio,
                                   now |-> clock[msgs[m].ctx]])
  /\ nextStartTime' = nextStartTime + msgs[m].audio
  /\ scheduledSources' = scheduledSources \cup {m}
  /\ TurnPart(m, msgs)
  /\ UNCHANGED capVars
  /\ UNCHANGED <<status, isConnected, liveImage, isProcessingTool, toolStatus, refVars,
                 started, startPc, tr, closeReq, released, clock, toolLog, stopLog,
                 endedDone>>

\* decodeAudioData rejects (lines 323-328): the handler ends with the
\* exception, lines 330-348 do not run.
DecodeFail(m) ==
  /\ m \in 1..Len(msgs)
  /\ msgs[m].pc = "decode"
  /\ msgs' = [msgs EXCEPT ![m].pc = "threw"]
  /\ UNCHANGED capVars
  /\ UNCHANGED <<uiVars, refVars, nextStartTime, scheduledSources, started, startPc,
                 tr, closeReq, released, clock, schedLog, toolLog, stopLog, endedDone>>

\* A started buffer source is over when it played to its end or was stopped.
SourceOver(e) ==
  \/ clock[e.ctx] >= Max(e.start, e.now) + e.dur
  \/ \E k \in 1..Len(stopLog) : stopLog[k] = e.msg

\* The 'ended' listener of a buffer source (lines 334-339).
Ended(b) ==
  /\ b \notin endedDone
  /\ \E k \in 1..Len(schedLog) : schedLog[k].msg = b /\ SourceOver(schedLog[k])
  /\ endedDone' = endedDone \cup {b}
  /\ scheduledSources' = scheduledSources \ {b}
  /\ isSpeaking' = IF scheduledSources \ {b} = {} THEN FALSE ELSE isSpeaking
  /\ UNCHANGED capVars
  /\ UNCHANGED <<status, isConnected, liveImage, isProcessingTool, toolStatus, refVars,
                 nextStartTime, started, startPc, tr, closeReq, released, clock,
                 msgs, schedLog, toolLog, stopLog>>

\* The close button of the image card (line 451).
DismissImage ==
  /\ liveImage
  /\ liveImage' = FALSE
  /\ UNCHANGED capVars
  /\ UNCHANGED <<status, isConnected, isSpeaking, isProcessingTool, toolStatus, refVars,
                 nextStartTime, scheduledSources, started, startPc, tr, closeReq,
                 released, clock, msgs, schedLog, toolLog, stopLog, endedDone>>

\* ------------------------------------------------------------- specification
\* Handler outcomes explored: a success and a failure.  The other failures
\* of Outcomes differ from "threw" in the result text alone.
ExploredOutcomes == {"ok", "threw"}

\* The steps of the component and of its environment, exploring at most maxS
\* startSession invocations, maxM messages and maxC function calls.
NextB(maxS, maxM, maxC) ==
  \/ ClickStart(maxS)
  \/ ClickStop
  \/ DismissImage
  \/ \E n \in Sessions : MicGranted(n)
  \/ \E n \in Sessions : MicDenied(n)
  \/ \E n \in Sessions : OnOpen(n)
  \/ \E n \in Sessions : ConnectReject(n)
  \/ \E n \in Sessions : OnError(n)
  \/ \E n \in Sessions : OnClose(n)
  \/ \E n \in Sessions : Tick(n)
  \/ \E n \in Sessions, shape \in MsgShapes : OnMessage(n, shape, maxM, maxC)
  \/ \E m \in 1..MaxMsgs, outcome \in ExploredOutcomes : ToolDone(m, outcome)
  \/ \E m \in 1..MaxMsgs : DecodeDone(m)
  \/ \E m \in 1..MaxMsgs : DecodeFail(m)
  \/ \E b \in 1..MaxMsgs : Ended(b)

\* Life cycle: every startSession invocation, one message, one function call.
NextLife == NextB(MaxSessions, 1, 1)
SpecLife == Init /\ [][NextLife]_vars

\* Conversation: one session, every message and function call.
Next == NextB(1, MaxMsgs, MaxCalls)
Spec == Init /\ [][Next]_vars

\* Restarts: the life-cycle steps alone (buttons, getUserMedia, transport
\* callbacks), over every startSession invocation and without messages.
NextRestart ==
  \/ ClickStart(MaxRestarts)
  \/ ClickStop
  \/ \E n \in Sessions : MicGranted(n)
  \/ \E n \in Sessions : MicDenied(n)
  \/ \E n \in Sessions : OnOpen(n)
  \/ \E n \in Sessions : ConnectReject(n)
  \/ \E n \in Sessions : OnError(n)
  \/ \E n \in Sessions : OnClose(n)

SpecRestart == Init /\ [][NextRestart]_vars

\* Capture: the life-cycle steps and the capture callback.  The callback
\* changes nothing but fired and audioLog, which no other step reads.
NextCapture ==
  \/ ClickStart(MaxSessions)
  \/ ClickStop
  \/ \E n \in Sessions : MicGranted(n)
  \/ \E n \in Sessions : MicDenied(n)
  \/ \E n \in Sessions : OnOpen(n)
  \/ \E n \in Sessions : ConnectReject(n)
  \/ \E n \in Sessions : OnError(n)
  \/ \E n \in Sessions : OnClose(n)
  \/ \E n \in Sessions : OnAudioProcess(n, MaxWindows)

SpecCapture == Init /\ [][NextCapture]_vars

\* A tool handler that was called returns in the end: its promise settles,
\* with a result or with the text of its catch block (lines 136-141, 223-228).
HandlersReturn ==
  \A m \in 1..MaxMsgs : WF_vars(\E outcome \in ExploredOutcomes : ToolDone(m, outcome))

FairSpec == Spec /\ HandlersReturn

\* ------------------------------------------------------------- properties
\* Entries of schedLog and toolLog.
Scheduled == {schedLog[k] : k \in 1..Len(schedLog)}
Responses == {toolLog[k] : k \in 1..Len(toolLog)}

\* C1: gapless in arrival order.  For two chunks of one session, the one
\* whose message arrived first is scheduled to end before the other starts:
\* s(j) >= s(i) + d(i) whenever message i arrived before message j.
C1_GaplessInArrivalOrder ==
  \A e, f \in Scheduled :
    (e.msg < f.msg /\ msgs[e.msg].sess = msgs[f.msg].sess)
      => f.start >= e.start + e.dur

\* Responses sent for function call i of message m.
AnswersTo(m, i) == {k \in 1..Len(toolLog) : toolLog[k].msg = m /\ toolLog[k].idx = i}

Requested(m, i) == m <= Len(msgs) /\ i <= Len(msgs[m].tools)

\* The handler of message m returned or ended with an exception.
HandlerEnded(m) == msgs[m].pc \in {"done", "threw"}

\* C2: every function call received is answered by exactly one response
\* carrying its id and name: never two, never one for a call that was not
\* made, and once the handler of its message has ended exactly one, whether
\* the call's handler succeeded, failed or does not exist.
C2_ToolCorrelation ==
  /\ \A r \in Responses :
       Requested(r.msg, r.idx) /\ r.name = msgs[r.msg].tools[r.idx]
  /\ \A m \in 1..MaxMsgs, i \in 1..MaxCalls : Cardinality(AnswersTo(m, i)) <= 1
  /\ \A m \in 1..Len(msgs) : \A i \in 1..Len(msgs[m].tools) :
       HandlerEnded(m) => Cardinality(AnswersTo(m, i)) = 1

\* C4: the speaking flag is true exactly when a buffer is scheduled, unless
\* a turnComplete was handled, which may leave it false over a non-empty set.
TurnCompleteHandled ==
  \E m \in 1..Len(msgs) : msgs[m].tc /\ msgs[m].pc = "done"

C4_SpeakingIffScheduled ==
  /\ isSpeaking => scheduledSources # {}
  /\ (scheduledSources # {} /\ ~TurnCompleteHandled) => isSpeaking

\* C6: no buffer is handed to the output device with a start time that lies
\* before the output clock's time at that moment.
C6_StartNotBeforeClock ==
  \A e \in Scheduled : e.start >= e.now

\* C7: the audio chunk of a message never waits for a tool handler of the
\* same message: no handler is suspended on a tool call while its message
\* still carries a chunk that was not handed to the scheduler.
C7_ChunkNotBlockedByTool ==
  \A m \in 1..Len(msgs) : msgs[m].pc = "tool" => msgs[m].audio = 0

\* C8: a tool result is never sent once teardown (stop, close or error) has
\* taken the message's session to Disconnected or Error and closed its
\* transport: a late handler completion is dropped.
C8_LateResultDropped ==
  \A r \in Responses : r.trAt = "open"

\* C9: once the connect of the latest startSession has rejected, the session
\* is in Error and teardown released the stream and both audio contexts.
C9_ConnectFailureFatal ==
  \A n \in Sessions :
    (tr[n] = "rejected" /\ started = n /\ sessionRef = n)
      => /\ status = "error"
         /\ released["stream"][n] = 1
         /\ released["audioContext"][n] = 1
         /\ released["inputContext"][n] = 1

\* The handle each kind of resource is held in.
HeldRef(k) ==
  CASE k = "session" -> sessionRef
    [] k = "processor" -> processorRef
    [] k = "source" -> sourceRef
    [] k = "stream" -> streamRef
    [] k = "inputContext" -> inputContextRef
    [] k = "audioContext" -> audioContextRef

\* A step that runs cleanup: the End button, onclose, onerror, the catch.
TeardownStep ==
  \/ ClickStop
  \/ \E n \in Sessions : OnClose(n) \/ OnError(n) \/ MicDenied(n)

\* C3: idempotent teardown.  Every run of cleanup, from any state, leaves
\* all handles null, has released exactly once each resource that was held
\* and has released nothing else (so a repeated stop releases nothing); no
\* resource is ever released twice; stop() and onclose leave Disconnected.
C3_IdempotentTeardown ==
  /\ [](\A k \in Kinds, n \in Sessions : released[k][n] <= 1)
  /\ [][TeardownStep =>
          /\ \A k \in Kinds : HeldRef(k)' = Null
          /\ \A k \in Kinds, n \in Sessions :
               released'[k][n] = IF HeldRef(k) = n THEN 1 ELSE released[k][n]]_vars
  /\ [][(ClickStop \/ \E n \in Sessions : OnClose(n)) =>
          (status' = "disconnected" /\ ~isConnected')]_vars

\* C3 witness: teardown closed the first session's transport while a tool
\* handler was pending (its result went out on the closing transport), the
\* close callback ran teardown again with nothing held, and teardown ran a
\* third time from the partially initialised state of a second startSession
\* (only its audio contexts held); each resource was released once.
C3_Witness ==
  /\ \E r \in Responses : r.sess = 1 /\ r.trAt = "closing"
  /\ tr[1] = "closed"
  /\ \A k \in Kinds : released[k][1] = 1
  /\ startPc[2] = "caught"
  /\ released["audioContext"][2] = 1
  /\ released["stream"][2] = 0

\* Buffer sources on which stop() was called.
Stopped == {stopLog[k] : k \in 1..Len(stopLog)}

\* What a transport-driven teardown leaves behind, with final status st.
TornDown(st) ==
  /\ status' = st
  /\ ~isConnected'
  /\ streamRef' = Null /\ processorRef' = Null /\ sourceRef' = Null
  /\ streamRef # Null => released'["stream"][streamRef] = 1
  /\ processorRef # Null => released'["processor"][processorRef] = 1
  /\ sourceRef # Null => released'["source"][sourceRef] = 1
  /\ scheduledSources' = {}
  /\ \A b \in scheduledSources : b \in Stopped'

\* C5: an error callback arriving while Connected leaves Error, a close
\* callback leaves Disconnected; both release the capture path, stop every
\* scheduled buffer and empty the scheduled set, with no stop() by the caller.
C5_TransportDrivenTeardown ==
  [][\A n \in Sessions :
       /\ (OnError(n) /\ status = "connected") => TornDown("error")
       /\ (OnClose(n) /\ status = "connected") => TornDown("disconnected")]_vars

\* C5 witness: the error callback of the only session tore it down while a
\* buffer was scheduled.
C5_Witness ==
  /\ started = 1
  /\ status = "error"
  /\ tr[1] = "closing"
  /\ stopLog # <<>>
  /\ released["stream"][1] = 1

\* C10: a startSession whose getUserMedia rejected has opened no transport,
\* and both of its audio contexts were released exactly once; the step that
\* handles the rejection leaves Error, not connected, with every handle null.
C10_CaptureFailureFatal ==
  /\ [](\A n \in Sessions :
          startPc[n] = "caught" =>
            /\ tr[n] = "none"
            /\ released["audioContext"][n] = 1
            /\ released["inputContext"][n] = 1
            /\ released["stream"][n] = 0)
  /\ [][\A n \in Sessions :
          MicDenied(n) =>
            /\ status' = "error"
            /\ ~isConnected'
            /\ \A k \in Kinds : HeldRef(k)' = Null]_vars

\* C10 witness: the first startSession failed on the microphone.
C10_Witness ==
  /\ startPc[1] = "caught"
  /\ status = "error"
  /\ released["audioContext"][1] = 1

\* Transports that are open, and microphone streams that were acquired
\* (line 243) and whose tracks were not stopped.
OpenTransports == {n \in Sessions : tr[n] = "open"}
LiveStreams == {n \in Sessions : startPc[n] = "returned" /\ released["stream"][n] = 0}

\* C11: at most one live transport/capture pair.  In every reachable state
\* at most one transport is open and at most one microphone stream is live,
\* and no step stores a new handle over one that is still held.
C11_OneLivePair ==
  /\ [](Cardinality(OpenTransports) <= 1 /\ Cardinality(LiveStreams) <= 1)
  /\ [][\A k \in Kinds :
          HeldRef(k)' \notin {Null, HeldRef(k)} => HeldRef(k) = Null]_vars

\* A step in which startSession is invoked.
StartStep == started' = started + 1

\* C12 as stated: startSession is invoked in the Disconnected state only,
\* never while the session is Connecting, Connected or in Error.
C12_StartOnlyFromDisconnected ==
  [][StartStep => status = "disconnected"]_vars

\* C12, amended: startSession is invoked in the Disconnected or the Error
\* state only, never while the session is Connecting or Connected, and it
\* leaves Connecting; the Connected status and the isConnected flag that
\* hides the Start button always agree.
C12_StartFromDisconnectedOrError ==
  /\ [](isConnected <=> status = "connected")
  /\ [][StartStep =>
          /\ status \in {"disconnected", "error"}
          /\ ~isConnected
          /\ status' = "connecting"]_vars

\* C12 witness: the first startSession failed on the microphone, and from
\* the Error state it left a second one was invoked.
C12_Witness ==
  /\ startPc[1] = "caught"
  /\ tr[1] = "none"
  /\ startPc[2] = "awaitMic"
  /\ status = "connecting"

\* The loop of lines 288-309 has gone past function call i of message m.
Passed(m, i) == i < msgs[m].fc

\* The texts a handler returns from its catch block (lines 138, 225).
ThrownTexts ==
  {"Error occurred while generating image.", "Error occurred while generating code."}

\* C13: tool faults are contained.  Once the handler of a message has
\* ended, each of its calls with an unknown name was answered with "Tool
\* execution failed"; a handler that throws is answered with the text of
\* its catch block; and every step that sends a tool response leaves the
\* status, the connected flag, every handle (capture path included), the
\* transports, the releases and the scheduled set as they were, so it never
\* moves the session to Error.
C13_ToolFaultsContained ==
  /\ [](\A m \in 1..Len(msgs) : \A i \in 1..Len(msgs[m].tools) :
          (msgs[m].tools[i] \notin KnownTools /\ HandlerEnded(m)) =>
            \E r \in Responses :
              r.msg = m /\ r.idx = i /\ r.result = "Tool execution failed")
  /\ [][\A m \in 1..MaxMsgs :
          ToolDone(m, "threw") =>
            \E k \in 1..Len(toolLog') :
              /\ toolLog'[k].msg = m
              /\ toolLog'[k].idx = msgs[m].fc
              /\ toolLog'[k].result \in ThrownTexts]_vars
  /\ [][toolLog' # toolLog =>
          UNCHANGED <<status, isConnected, refVars, tr, released,
                      scheduledSources, stopLog>>]_vars

\* The chunks sent to the session of invocation n, in the order sent.
IsOf(n, e) == e.sess = n
SentTo(n) == SelectSeq(audioLog, LAMBDA e : IsOf(n, e))

\* C14: the status becomes 'connected' only in the step in which a
\* connecting transport acknowledges its open; every audio chunk is sent to
\* a session whose open was acknowledged before; and the chunks sent to a
\* session are one per firing of its capture callback, in capture order
\* (the k-th chunk sent is the window of the k-th firing).
C14_CaptureArmedByOpen ==
  /\ [][(status' = "connected" /\ status # "connected") =>
          \E n \in Sessions : tr[n] = "connecting" /\ tr'[n] \in {"open", "closing"}]_vars
  /\ [](\A k \in 1..Len(audioLog) : audioLog[k].trAt \notin {"none", "connecting"})
  /\ [](\A n \in Sessions :
          /\ Len(SentTo(n)) = fired[n]
          /\ \A k \in 1..Len(SentTo(n)) : SentTo(n)[k].win = k)
  /\ [][\A n \in Sessions :
          fired'[n] # fired[n] => Len(audioLog') = Len(audioLog) + 1]_vars

\* C14 witness: the capture callback of the connected first session fired
\* twice and its two windows went out on the open transport, in order.
C14_Witness ==
  /\ status = "connected"
  /\ tr[1] = "open"
  /\ fired[1] = 2
  /\ Len(audioLog) = 2
  /\ audioLog[1].win = 1 /\ audioLog[2].win = 2
  /\ audioLog[2].trAt = "open"

\* A handler is suspended on decodeAudioData.
Decoding == \E k \in 1..Len(msgs) : msgs[k].pc = "decode"

\* The decoding of the chunk of message m failed (the handler got as far as
\* line 315 and ended with an exception).
DecodeFailed(m) == msgs[m].pc = "threw" /\ msgs[m].ctx # Null

\* C15: decode failures are contained.  Once the decoding of a message's
\* chunk has failed, the handler of that message has gone on to its
\* turnComplete flag (it is not left at the failure), and the speaking flag
\* is not left true with nothing scheduled and nothing being decoded.
C15_DecodeFailureContained ==
  \A m \in 1..Len(msgs) :
    DecodeFailed(m) =>
      /\ ~msgs[m].tc
      /\ isSpeaking => (scheduledSources # {} \/ Decoding)

\* Function call i of message m was answered, or its handler was called.
Invoked(m, i) == Passed(m, i) \/ (i = msgs[m].fc /\ msgs[m].pc = "tool")

\* C16: concurrent fan-out.  No function call waits for the handler of
\* another call: while a handler of a message is running, every call of
\* that message has been answered or has its handler running too.
C16_ConcurrentFanOut ==
  \A m \in 1..Len(msgs) :
    msgs[m].pc = "tool" => \A i \in 1..Len(msgs[m].tools) : Invoked(m, i)

\* The handler of message m is suspended at an await.
Suspended(m) == msgs[m].pc \in {"tool", "decode"}

\* A playback-scheduling or turn-complete effect of message m took place.
Effected(m) ==
  \/ \E e \in Scheduled : e.msg = m
  \/ msgs[m].tc /\ msgs[m].pc = "done"

\* C17: inbound messages are processed one at a time in arrival order.
\* While the handler of a message that carries a chunk or a turnComplete
\* flag is suspended, no message of the same session that arrived later has
\* had its chunk scheduled or its turnComplete flag applied.
C17_OneAtATimeInOrder ==
  \A k, j \in 1..Len(msgs) :
    (/\ k < j
     /\ msgs[k].sess = msgs[j].sess
     /\ Suspended(k)
     /\ (msgs[k].audio # 0 \/ msgs[k].tc))
      => ~Effected(j)

\* A transport callback of invocation n runs.
TransportCallback(n) == OnOpen(n) \/ OnClose(n) \/ OnError(n)

\* C18: callbacks of an earlier session cannot disturb a later one.  A
\* close, error or open callback of invocation n that runs after a later
\* startSession began releases no resource of a later invocation and leaves
\* the status and the connected flag as they were.
C18_StaleCallbacksHarmless ==
  [][\A n \in Sessions :
       (n < started /\ TransportCallback(n)) =>
         /\ UNCHANGED <<status, isConnected>>
         /\ \A k \in Kinds, m \in Sessions :
              m > n => released'[k][m] = released[k][m]]_vars

\* C19: the Error state is stable.  From status 'error' no step other than
\* an invocation of startSession changes the status.
C19_ErrorStable ==
  [][status = "error" => (status' = "error" \/ StartStep)]_vars

\* C20: nothing is scheduled after teardown.  While the status is
\* 'disconnected' or 'error' (from teardown to the next startSession) the
\* scheduled set is empty and the speaking flag is false.
C20_NothingScheduledAfterTeardown ==
  status \in {"disconnected", "error"} => (scheduledSources = {} /\ ~isSpeaking)

\* C21: Connected means fully wired.  Whenever the status is 'connected' the
\* connected flag is true and the session promise, the microphone stream,
\* the input context and the capture processor are all held, the processor
\* still capturing; and whenever the connected flag is true the status is
\* 'connected'.
C21_ConnectedFullyWired ==
  /\ status = "connected" =>
       /\ isConnected
       /\ sessionRef # Null
       /\ streamRef # Null
       /\ inputContextRef # Null
       /\ processorRef # Null
       /\ Capturing(processorRef)
  /\ isConnected => status = "connected"

====
